---------------------------- MODULE Spec2Model ----------------------------
(***************************************************************************)
(* Hexapod hand controller firmware (AT90CAN64, avr-gcc: int and short are *)
(* 16 bits, U16 is an unsigned 16-bit type, S8 a signed 8-bit type).       *)
(*                                                                         *)
(* The model has the main loop of main() as a sequence of steps (pc), the  *)
(* 30 Hz touch-poll interrupt TIMER1_OVF_vect and the 7.8 kHz tick         *)
(* interrupt TIMER0_OVF_vect as atomic actions that may run between any    *)
(* two main-loop steps, and the UART and ADC hardware flags the busy-wait  *)
(* loops of Transmit and ReadADC poll.                                     *)
(***************************************************************************)
EXTENDS Integers, Sequences, FiniteSets, TLC

(***************************************************************************)
(* Bounds of the model (not program constants).                            *)
(***************************************************************************)
\* the longest touch the model follows, in 30 Hz poll ticks
MaxTouchTimer == 5
\* the largest value the tick counter is followed to
MaxTicks == 1566

(***************************************************************************)
(* Integer types of the target.                                            *)
(***************************************************************************)
ToU16(v) == v % 65536

ToS16(v) == LET u == v % 65536 IN IF u >= 32768 THEN u - 65536 ELSE u

ToU8(v) == v % 256

ToS8(v) == LET u == v % 256 IN IF u >= 128 THEN u - 256 ELSE u

\* C integer division truncates toward zero
CDiv(a, b) ==
    LET q == (IF a < 0 THEN -a ELSE a) \div (IF b < 0 THEN -b ELSE b)
    IN IF (a < 0) = (b < 0) THEN q ELSE -q

(***************************************************************************)
(* enum Buttons, enum Sliders, enum Page, the control bits.                *)
(***************************************************************************)
NONE == -1
WALK_MODE == 0
WIGGLE_MODE == 1
TRIPOD_GAIT == 2
RIPPLE_GAIT == 3
LOW_BODY == 4
HIGH_BODY == 5
LOW_STEP == 6
HIGH_STEP == 7
LONG_STEP == 8
QUICK_STEP == 9
RED_EYES == 10
GREEN_EYES == 11
BLUE_EYES == 12
NUM_BUTTONS == 13

FRONT_SERVO == 0
BACK_SERVO == 1
NUM_SLIDERS == 2

MAIN_PAGE == 0

WIGGLE_BIT == 1
HIGH_STEP_BIT == 2
HIGH_BODY_BIT == 4
QUICK_STEP_BIT == 8
RIPPLE_BIT == 16

ButtonIds == 0 .. (NUM_BUTTONS - 1)
SliderIds == 0 .. (NUM_SLIDERS - 1)

\* controlBits |= bit and controlBits &= ~bit on the 8-bit field
SetBit(bits, bit) == IF (bits \div bit) % 2 = 1 THEN bits ELSE bits + bit

\* a clear that leaves the bit as it is
ClearBit_Keeps(bits, bit) == bits

ClearBit(bits, bit) == IF (bits \div bit) % 2 = 1 THEN bits - bit ELSE bits

HasBit(bits, bit) == (bits \div bit) % 2 = 1

(***************************************************************************)
(* The InitialiseButton calls of main(): centre x, top y, width and the    *)
(* initial selected flag of every button.  page is MAIN_PAGE for all.      *)
(***************************************************************************)
ButtonTable ==
    [n \in ButtonIds |->
        CASE n = WALK_MODE   -> [x |-> 140, y |-> 30,  width |-> 100, selected |-> TRUE]
          [] n = WIGGLE_MODE -> [x |-> 260, y |-> 30,  width |-> 100, selected |-> FALSE]
          [] n = TRIPOD_GAIT -> [x |-> 140, y |-> 65,  width |-> 100, selected |-> TRUE]
          [] n = RIPPLE_GAIT -> [x |-> 260, y |-> 65,  width |-> 100, selected |-> FALSE]
          [] n = LOW_BODY    -> [x |-> 140, y |-> 100, width |-> 100, selected |-> TRUE]
          [] n = HIGH_BODY   -> [x |-> 260, y |-> 100, width |-> 100, selected |-> FALSE]
          [] n = LOW_STEP    -> [x |-> 140, y |-> 135, width |-> 100, selected |-> TRUE]
          [] n = HIGH_STEP   -> [x |-> 260, y |-> 135, width |-> 100, selected |-> FALSE]
          [] n = LONG_STEP   -> [x |-> 140, y |-> 170, width |-> 100, selected |-> TRUE]
          [] n = QUICK_STEP  -> [x |-> 260, y |-> 170, width |-> 100, selected |-> FALSE]
          [] n = RED_EYES    -> [x |-> 122, y |-> 205, width |-> 64,  selected |-> FALSE]
          [] n = GREEN_EYES  -> [x |-> 200, y |-> 205, width |-> 70,  selected |-> TRUE]
          [] n = BLUE_EYES   -> [x |-> 278, y |-> 205, width |-> 64,  selected |-> FALSE]]

\* the fields InitialiseButton sets that change later
InitialiseButton(n) ==
    [highlighted |-> FALSE, selected |-> ButtonTable[n].selected,
     needsRedraw |-> TRUE, page |-> MAIN_PAGE]

\* InitialiseSlider: oldValue is set to -1 to force the first redraw
InitialiseSlider(x, y, width, value, page) ==
    [x |-> x, y |-> y, width |-> width, value |-> value, oldValue |-> -1,
     page |-> page]

\* main() never calls InitialiseSlider: the sliders array keeps the zero
\* initialisation of a C global
ZeroSlider ==
    [x |-> 0, y |-> 0, width |-> 0, value |-> 0, oldValue |-> 0, page |-> 0]

VARIABLES
    buttons,                 \* Button buttons[NUM_BUTTONS] (the mutable fields)
    sliders,                 \* Slider sliders[NUM_SLIDERS]
    touchedButton,           \* S8: the armed button, or NONE
    touchedSlider,           \* S8: the dragged slider, or NONE
    buttonPressed,           \* S8: the committed press the main loop consumes
    touchTimer,              \* short: poll ticks the touch has lasted
    touchX, touchY,          \* int: the last sampled touch position
    currentPage,             \* U8
    displayNeedsFullRedraw,  \* volatile bool
    controlBits,             \* U8
    left_x, left_y, right_x, right_y,  \* uint8_t joystick samples
    controllerSoC, hexapodSoC,         \* int battery estimates
    ticks,                   \* short: accumulated 7.8 kHz ticks
    pc,                      \* the statement of main() that runs next
    sw,                      \* the value the switch statement read, kept
                             \* until the statement after the switch
    ticksReg,                \* the register copy of ticks in ticks -= 781
                             \* (0 outside that statement)
    inTransmit,              \* Transmit has written UDR1 and waits for UDRE1
    udre,                    \* UCSR1A bit UDRE1: the transmit buffer is empty
    wire,                    \* the bytes written to UDR1 since the switch
                             \* was left or the 10 Hz cycle began
    rxc, rxData,             \* UCSR1A bit RXC1 and the received byte in UDR1
    inReadADC,               \* ReadADC has started a conversion and waits
    adsc, adif, adcw,        \* ADCSRA bits ADSC and ADIF, the result ADCW
    admux,                   \* the ADC channel selected in ADMUX
    elapsed,                 \* 7.8 kHz periods spent in the current statement
                             \* of the 10 Hz cycle (0 where time is not
                             \* modelled)
    tft                      \* what the render functions have drawn: the
                             \* battery fill widths, the buttons drawn by
                             \* the call of RenderButtons that has just
                             \* returned, the value each slider's handle
                             \* shows

uiVars == <<buttons, sliders, touchedButton, touchedSlider, buttonPressed,
            touchTimer, touchX, touchY, currentPage, displayNeedsFullRedraw,
            controlBits>>

touchVars == <<touchedButton, touchedSlider, touchTimer, touchX, touchY>>

dataVars == <<left_x, left_y, right_x, right_y, controllerSoC, hexapodSoC>>

uartVars == <<inTransmit, udre, wire, rxc, rxData>>

adcVars == <<inReadADC, adsc, adif, adcw, admux>>

vars == <<uiVars, dataVars, ticks, pc, sw, ticksReg, uartVars, adcVars,
          elapsed, tft>>

(***************************************************************************)
(* Hit tests.  button->x - button->width/2 is unsigned 16-bit arithmetic   *)
(* and the int touchX is converted to unsigned for the comparison.         *)
(***************************************************************************)
InRegion(tx, ty, x, y, width) ==
    /\ ToU16(tx) >= ToU16(x - width \div 2)
    /\ ToU16(tx) <= ToU16(x + width \div 2)
    /\ ToU16(ty) >= y
    /\ ToU16(ty) <= ToU16(y + 32)

ButtonTouchedAt(n, tx, ty, page) ==
    /\ InRegion(tx, ty, ButtonTable[n].x, ButtonTable[n].y, ButtonTable[n].width)
    /\ page = buttons[n].page

ButtonTouched(n) == ButtonTouchedAt(n, touchX, touchY, currentPage)

SliderTouchedAt(s, tx, ty, page) ==
    /\ InRegion(tx, ty, s.x, s.y, s.width)
    /\ page = s.page

SliderTouched(n) == SliderTouchedAt(sliders[n], touchX, touchY, currentPage)

(***************************************************************************)
(* Touch handling, run inside the 30 Hz interrupt.                         *)
(***************************************************************************)
\* the last id, in iteration order, whose hit test passes; old if none
\* a loop that stops at the first hit
LastTouched_First(hits, old) ==
    IF hits # {}
    THEN CHOOSE n \in hits : \A m \in hits : n <= m
    ELSE old

LastTouched(hits, old) ==
    IF hits # {}
    THEN CHOOSE n \in hits : \A m \in hits : m <= n
    ELSE old

\* what a 16-bit unsigned division by zero may leave in the quotient
DivZeroQuotients == {0, 65535}

\* 100*(touchX - (slider->x-usableWidth/2))/usableWidth: slider->x is U16,
\* so the difference, the product and the division are unsigned 16-bit
DragQuotients(s, tx) ==
    LET usableWidth == ToS16(ToU16(s.width - 16))
        start == ToU16(s.x - CDiv(usableWidth, 2))
        num == ToU16(100 * ToU16(tx - start))
        den == ToU16(usableWidth)
    IN IF den = 0 THEN DivZeroQuotients ELSE {num \div den}

\* a clamp without the upper limit
ClampValue_NoUpper(v) == IF v < 0 THEN 0 ELSE v

\* the two if statements that follow the assignment to slider->value
ClampValue(v) == IF v < 0 THEN 0 ELSE IF v > 100 THEN 100 ELSE v

\* slider->value is an S8: the quotient is stored in 8 bits, then clamped
DragValues(s, tx) == {ClampValue(ToS8(q)) : q \in DragQuotients(s, tx)}

\* HandleTouchDown with the tick at which the hit test runs as a parameter
TouchDownSettlingAt(p, settle) ==
    /\ touchX' = ToS16(p.x)
    /\ touchY' = ToS16(p.y)
    /\ IF touchTimer' = settle
       THEN /\ touchedButton' =
                 LastTouched({n \in ButtonIds :
                                ButtonTouchedAt(n, touchX', touchY', currentPage)},
                             touchedButton)
            /\ touchedSlider' =
                 LastTouched({n \in SliderIds :
                                SliderTouchedAt(sliders[n], touchX', touchY',
                                                currentPage)},
                             touchedSlider)
            /\ UNCHANGED sliders
       ELSE IF touchTimer' > settle
       THEN /\ IF /\ touchedSlider \in SliderIds
                  /\ SliderTouchedAt(sliders[touchedSlider], touchX', touchY', currentPage)
               THEN \E v \in DragValues(sliders[touchedSlider], touchX') :
                        sliders' = [sliders EXCEPT ![touchedSlider].value = v]
               ELSE UNCHANGED sliders
            /\ UNCHANGED <<touchedButton, touchedSlider>>
       ELSE UNCHANGED <<touchedButton, touchedSlider, sliders>>

\* a HandleTouchDown that runs the hit test one poll tick early
HandleTouchDown_SettleAt2(p) == TouchDownSettlingAt(p, 2)

\* touchX = Touch_GetX(); touchY = Touch_GetY(); if (touchTimer == 3) ...
\* else if (touchTimer > 3) ...
HandleTouchDown(p) == TouchDownSettlingAt(p, 3)

\* buttons[touchedButton] with touchedButton = NONE reads the bytes in front
\* of the array: the hit test on them may come out either way
HandleTouchUp ==
    IF touchTimer < 3
    THEN UNCHANGED <<buttonPressed, touchedButton, touchedSlider>>
    ELSE /\ \E hit \in (IF touchedButton \in ButtonIds
                        THEN {ButtonTouched(touchedButton)}
                        ELSE BOOLEAN) :
                buttonPressed' = IF hit THEN touchedButton ELSE buttonPressed
         /\ touchedButton' = NONE
         /\ touchedSlider' = NONE

\* ISR(TIMER1_OVF_vect): points are the positions the touch controller may
\* report while touch data is available, which it is only if available holds
TouchPoll(points, available) ==
    /\ \/ /\ available
          /\ \E p \in points :
                /\ touchTimer' = ToS16(touchTimer + 1)
                /\ HandleTouchDown(p)
          /\ UNCHANGED buttonPressed
       \/ /\ IF touchTimer > 0
             THEN HandleTouchUp
             ELSE UNCHANGED <<buttonPressed, touchedButton, touchedSlider>>
          /\ touchTimer' = 0
          /\ touchX' = -1
          /\ touchY' = -1
          /\ UNCHANGED sliders
    /\ UNCHANGED elapsed
    /\ UNCHANGED tft
    /\ UNCHANGED <<buttons, currentPage, displayNeedsFullRedraw, controlBits,
                   dataVars, ticks, pc, sw, ticksReg, uartVars, adcVars>>

\* the touch interrupt with touches of at most MaxTouchTimer poll ticks
TIMER1_OVF_vect(points) == TouchPoll(points, touchTimer < MaxTouchTimer)

\* the touch interrupt with touches of any duration: touchTimer++ wraps from
\* 32767 to -32768
TIMER1_OVF_held(points) == TouchPoll(points, TRUE)

\* ISR(TIMER0_OVF_vect): ticks++ on a short
TIMER0_OVF_vect ==
    /\ ticks < MaxTicks
    /\ ticks' = ToS16(ticks + 1)
    /\ UNCHANGED elapsed
    /\ UNCHANGED tft
    /\ UNCHANGED <<uiVars, dataVars, pc, sw, ticksReg, uartVars, adcVars>>

(***************************************************************************)
(* The main loop.                                                          *)
(***************************************************************************)
\* a SelectButton that forgets the second button to deselect
SelectButton_NoOtherOld(newButton, oldButton, otherOldButton) ==
    [buttons EXCEPT ![newButton].selected = TRUE,
                    ![newButton].needsRedraw = TRUE,
                    ![oldButton].selected = FALSE,
                    ![oldButton].needsRedraw = TRUE]

SelectButton(newButton, oldButton, otherOldButton) ==
    LET b1 == [buttons EXCEPT ![newButton].selected = TRUE,
                              ![newButton].needsRedraw = TRUE]
        b2 == [b1 EXCEPT ![oldButton].selected = FALSE,
                         ![oldButton].needsRedraw = TRUE]
    IN IF otherOldButton # NONE
       THEN [b2 EXCEPT ![otherOldButton].selected = FALSE,
                       ![otherOldButton].needsRedraw = TRUE]
       ELSE b2

\* the indices i for which SelectButton assigns to buttons[i]: newButton and
\* oldButton unconditionally, otherOldButton if it is not NONE
SelectButtonWrites(newButton, oldButton, otherOldButton) ==
    {newButton, oldButton} \cup
        (IF otherOldButton # NONE THEN {otherOldButton} ELSE {})

EyeButtons == {RED_EYES, GREEN_EYES, BLUE_EYES}

\* the case of switch (buttonPressed) for button b: the controlBits it
\* leaves, the buttons array its SelectButton call leaves, and the character
\* it transmits first (0: none)
DispatchCase(b) ==
    CASE b = WALK_MODE ->
           [bits |-> ClearBit(controlBits, WIGGLE_BIT), tx |-> 0,
            sel |-> SelectButton(WALK_MODE, WIGGLE_MODE, NONE)]
      [] b = WIGGLE_MODE ->
           [bits |-> SetBit(controlBits, WIGGLE_BIT), tx |-> 0,
            sel |-> SelectButton(WIGGLE_MODE, WALK_MODE, NONE)]
      [] b = TRIPOD_GAIT ->
           [bits |-> ClearBit(controlBits, RIPPLE_BIT), tx |-> 0,
            sel |-> SelectButton(TRIPOD_GAIT, RIPPLE_GAIT, NONE)]
      [] b = RIPPLE_GAIT ->
           [bits |-> SetBit(controlBits, RIPPLE_BIT), tx |-> 0,
            sel |-> SelectButton(RIPPLE_GAIT, TRIPOD_GAIT, NONE)]
      [] b = LOW_BODY ->
           [bits |-> ClearBit(controlBits, HIGH_BODY_BIT), tx |-> 0,
            sel |-> SelectButton(LOW_BODY, HIGH_BODY, NONE)]
      [] b = HIGH_BODY ->
           [bits |-> SetBit(controlBits, HIGH_BODY_BIT), tx |-> 0,
            sel |-> SelectButton(HIGH_BODY, LOW_BODY, NONE)]
      [] b = LOW_STEP ->
           [bits |-> ClearBit(controlBits, HIGH_STEP_BIT), tx |-> 0,
            sel |-> SelectButton(LOW_STEP, HIGH_STEP, NONE)]
      [] b = HIGH_STEP ->
           [bits |-> SetBit(controlBits, HIGH_STEP_BIT), tx |-> 0,
            sel |-> SelectButton(HIGH_STEP, LOW_STEP, NONE)]
      [] b = LONG_STEP ->
           [bits |-> ClearBit(controlBits, QUICK_STEP_BIT), tx |-> 0,
            sel |-> SelectButton(LONG_STEP, QUICK_STEP, NONE)]
      [] b = QUICK_STEP ->
           [bits |-> SetBit(controlBits, QUICK_STEP_BIT), tx |-> 0,
            sel |-> SelectButton(QUICK_STEP, LONG_STEP, NONE)]
      [] b = RED_EYES ->
           [bits |-> controlBits, tx |-> 114,
            sel |-> SelectButton(RED_EYES, GREEN_EYES, BLUE_EYES)]
      [] b = GREEN_EYES ->
           [bits |-> controlBits, tx |-> 103,
            sel |-> SelectButton(GREEN_EYES, RED_EYES, BLUE_EYES)]
      [] b = BLUE_EYES ->
           [bits |-> controlBits, tx |-> 98,
            sel |-> SelectButton(BLUE_EYES, RED_EYES, GREEN_EYES)]

\* switch (buttonPressed): case NONE breaks; the cases of the ten mode
\* buttons run to their break; the eye-colour cases first call Transmit
Dispatch ==
    /\ pc = "switch"
    /\ sw' = buttonPressed
    /\ IF buttonPressed = NONE
       THEN /\ pc' = "clear"
            /\ UNCHANGED <<controlBits, buttons>>
       ELSE IF buttonPressed \in EyeButtons
       THEN /\ pc' = "eyeTx"
            /\ UNCHANGED <<controlBits, buttons>>
       ELSE /\ controlBits' = DispatchCase(buttonPressed).bits
            /\ buttons' = DispatchCase(buttonPressed).sel
            /\ pc' = "clear"
    /\ elapsed' = 0
    /\ UNCHANGED tft
    /\ UNCHANGED <<sliders, touchedButton, touchedSlider, buttonPressed,
                   touchTimer, touchX, touchY, currentPage,
                   displayNeedsFullRedraw, dataVars, ticks, ticksReg,
                   uartVars, adcVars>>

\* the SelectButton call of an eye-colour case, after its Transmit returned
EyeSelect ==
    /\ pc = "eyeSelect"
    /\ buttons' = DispatchCase(sw).sel
    /\ pc' = "clear"
    /\ elapsed' = 0
    /\ UNCHANGED tft
    /\ UNCHANGED <<sliders, touchedButton, touchedSlider, buttonPressed,
                   touchTimer, touchX, touchY, currentPage,
                   displayNeedsFullRedraw, controlBits, dataVars, ticks, sw,
                   ticksReg, uartVars, adcVars>>

\* buttonPressed = NONE after the switch
ClearPressed ==
    /\ pc = "clear"
    /\ buttonPressed' = NONE
    /\ sw' = NONE
    /\ wire' = <<>>
    /\ pc' = "rx"
    /\ elapsed' = 0
    /\ UNCHANGED tft
    /\ UNCHANGED <<buttons, sliders, touchedButton, touchedSlider, touchTimer,
                   touchX, touchY, currentPage, displayNeedsFullRedraw,
                   controlBits, dataVars, ticks, ticksReg, inTransmit, udre,
                   rxc, rxData, adcVars>>

\* if (UCSR1A & (1<<RXC1)): reading UDR1 clears RXC1
ReceiveStatus ==
    /\ pc = "rx"
    /\ IF rxc
       THEN /\ hexapodSoC' = IF rxData < hexapodSoC THEN rxData ELSE hexapodSoC
            /\ rxc' = FALSE
       ELSE UNCHANGED <<hexapodSoC, rxc>>
    /\ pc' = "drain"
    /\ elapsed' = 0
    /\ UNCHANGED tft
    /\ UNCHANGED <<uiVars, left_x, left_y, right_x, right_y, controllerSoC,
                   ticks, sw, ticksReg, inTransmit, udre, wire, rxData,
                   adcVars>>

\* a gate that opens at 781 ticks already
TicksDue_AtLeast == ticks >= 781

\* the condition of while (ticks > 781)
TicksDue == ticks > 781

DrainTest ==
    /\ pc = "drain"
    /\ pc' = IF TicksDue THEN "load" ELSE "renderMain"
    /\ elapsed' = 0
    /\ UNCHANGED tft
    /\ UNCHANGED <<uiVars, dataVars, ticks, sw, ticksReg, uartVars, adcVars>>

\* ticks -= 781 is a 16-bit read-modify-write on an 8-bit CPU: the load ...
DrainLoad ==
    /\ pc = "load"
    /\ ticksReg' = ticks
    /\ pc' = "store"
    /\ elapsed' = 0
    /\ UNCHANGED tft
    /\ UNCHANGED <<uiVars, dataVars, ticks, sw, uartVars, adcVars>>

\* ... and the store of the difference; a 10 Hz cycle begins
DrainStore ==
    /\ pc = "store"
    /\ ticks' = ToS16(ticksReg - 781)
    /\ ticksReg' = 0
    /\ wire' = <<>>
    /\ pc' = "adcBatt"
    /\ elapsed' = 0
    /\ UNCHANGED tft
    /\ UNCHANGED <<uiVars, dataVars, sw, inTransmit, udre, rxc, rxData,
                   adcVars>>

(***************************************************************************)
(* ReadADC(channel), at the five places the 10 Hz cycle calls it.          *)
(***************************************************************************)
AdcSites == {"adcBatt", "adcLX", "adcLY", "adcRX", "adcRY"}

\* enum ADCs { V_BATT, LEFT_X, LEFT_Y, RIGHT_X, RIGHT_Y }
AdcChannel(site) ==
    CASE site = "adcBatt" -> 0
      [] site = "adcLX"   -> 1
      [] site = "adcLY"   -> 2
      [] site = "adcRX"   -> 3
      [] site = "adcRY"   -> 4

AdcNext(site) ==
    CASE site = "adcBatt" -> "adcLX"
      [] site = "adcLX"   -> "adcLY"
      [] site = "adcLY"   -> "adcRX"
      [] site = "adcRX"   -> "adcRY"
      [] site = "adcRY"   -> "tx0"

\* ADMUX = channel; ADCSRA |= (1<<ADSC): the read-modify-write also writes
\* back a set ADIF, which clears it
ReadADCStart ==
    /\ pc \in AdcSites
    /\ ~inReadADC
    /\ admux' = AdcChannel(pc)
    /\ adsc' = TRUE
    /\ adif' = FALSE
    /\ inReadADC' = TRUE
    /\ elapsed' = 0
    /\ UNCHANGED tft
    /\ UNCHANGED <<uiVars, dataVars, ticks, pc, sw, ticksReg, uartVars, adcw>>

\* (ReadADC(V_BATT)-500)*2/3 in 16-bit int arithmetic
BatteryPercent(sample) == CDiv(ToS16((sample - 500) * 2), 3)

\* a filter that takes every sample
FilterSoC_TakesEvery(new, held) == new

\* the monotonic-decrease filter of both battery estimates
FilterSoC(new, held) == IF new < held THEN new ELSE held

\* while ((ADCSRA & 0x10) == 0); ADCSRA |= 0x10; return ADCW; and the
\* statement of the cycle that uses the result
ReadADCReturn ==
    /\ pc \in AdcSites
    /\ inReadADC
    /\ adif
    /\ adif' = FALSE
    /\ inReadADC' = FALSE
    /\ controllerSoC' = IF pc = "adcBatt"
                        THEN FilterSoC(BatteryPercent(adcw), controllerSoC)
                        ELSE controllerSoC
    /\ left_x'  = IF pc = "adcLX" THEN ToU8(adcw \div 4) ELSE left_x
    /\ left_y'  = IF pc = "adcLY" THEN ToU8(adcw \div 4) ELSE left_y
    /\ right_x' = IF pc = "adcRX" THEN ToU8(adcw \div 4) ELSE right_x
    /\ right_y' = IF pc = "adcRY" THEN ToU8(adcw \div 4) ELSE right_y
    /\ pc' = AdcNext(pc)
    /\ elapsed' = 0
    /\ UNCHANGED tft
    /\ UNCHANGED <<uiVars, hexapodSoC, ticks, sw, ticksReg, uartVars, adsc,
                   adcw, admux>>

\* the ADC hardware ends the conversion: ADSC falls, ADIF rises, ADCW holds
\* one of samples
AdcConversion(samples) ==
    /\ adsc
    /\ adsc' = FALSE
    /\ adif' = TRUE
    /\ \E v \in samples : adcw' = v
    /\ UNCHANGED elapsed
    /\ UNCHANGED tft
    /\ UNCHANGED <<uiVars, dataVars, ticks, pc, sw, ticksReg, uartVars,
                   inReadADC, admux>>

(***************************************************************************)
(* Transmit(c), at the eye-colour cases and the seven calls of the cycle.  *)
(***************************************************************************)
TxSites == {"eyeTx", "tx0", "tx1", "tx2", "tx3", "tx4", "tx5", "tx6"}

\* a checksum that leaves the control byte out
Checksum_NoControlBits(cb, lx, ly, rx, ry) == ToU8(ToS16(lx + ly + rx + ry))

\* controlBits + left_x + left_y + right_x + right_y passed as unsigned char
Checksum(cb, lx, ly, rx, ry) == ToU8(ToS16(cb + lx + ly + rx + ry))

\* the argument of the call, converted to unsigned char; 'c' is 99
TxArg(site) ==
    CASE site = "eyeTx" -> DispatchCase(sw).tx
      [] site = "tx0" -> ToU8(99)
      [] site = "tx1" -> controlBits
      [] site = "tx2" -> left_x
      [] site = "tx3" -> left_y
      [] site = "tx4" -> right_x
      [] site = "tx5" -> right_y
      [] site = "tx6" -> Checksum(controlBits, left_x, left_y, right_x, right_y)

TxNext(site) ==
    CASE site = "eyeTx" -> "eyeSelect"
      [] site = "tx0" -> "tx1"
      [] site = "tx1" -> "tx2"
      [] site = "tx2" -> "tx3"
      [] site = "tx3" -> "tx4"
      [] site = "tx4" -> "tx5"
      [] site = "tx5" -> "tx6"
      [] site = "tx6" -> "drain"

\* while ((UCSR1A & (1<<UDRE1)) == 0); UDR1 = c;
TransmitWrite ==
    /\ pc \in TxSites
    /\ ~inTransmit
    /\ udre
    /\ udre' = FALSE
    /\ wire' = Append(wire, TxArg(pc))
    /\ inTransmit' = TRUE
    /\ elapsed' = 0
    /\ UNCHANGED tft
    /\ UNCHANGED <<uiVars, dataVars, ticks, pc, sw, ticksReg, rxc, rxData,
                   adcVars>>

\* while ((UCSR1A & (1<<UDRE1)) == 0); _delay_ms(2); return
TransmitReturn ==
    /\ pc \in TxSites
    /\ inTransmit
    /\ udre
    /\ inTransmit' = FALSE
    /\ pc' = TxNext(pc)
    /\ elapsed' = 0
    /\ UNCHANGED tft
    /\ UNCHANGED <<uiVars, dataVars, ticks, sw, ticksReg, udre, wire, rxc,
                   rxData, adcVars>>

\* the UART moves the byte to its shift register: UDRE1 rises
UartDataRegisterEmpty ==
    /\ ~udre
    /\ udre' = TRUE
    /\ UNCHANGED elapsed
    /\ UNCHANGED tft
    /\ UNCHANGED <<uiVars, dataVars, ticks, pc, sw, ticksReg, inTransmit,
                   wire, rxc, rxData, adcVars>>

\* the UART receives a status byte, one of bytes: RXC1 rises
UartReceive(bytes) ==
    /\ ~rxc
    /\ rxc' = TRUE
    /\ \E b \in bytes : rxData' = b
    /\ UNCHANGED elapsed
    /\ UNCHANGED tft
    /\ UNCHANGED <<uiVars, dataVars, ticks, pc, sw, ticksReg, inTransmit,
                   udre, wire, adcVars>>

(***************************************************************************)
(* Rendering.                                                              *)
(***************************************************************************)
\* RenderMainPage draws the page chrome and the two batteries; it writes no
\* program variable
\* a fill without the 3-pixel floor
DrawBattery_NoFloor(percentage) == CDiv(ToS16(percentage * 30), 100)

\* DrawBattery: the width of the fill box, int width = percentage*30/100
\* raised to 3
DrawBattery(percentage) ==
    LET width == CDiv(ToS16(percentage * 30), 100)
    IN IF width < 3 THEN 3 ELSE width

RenderMainPage ==
    /\ pc = "renderMain"
    /\ tft' = [tft EXCEPT !.fill = [hexapod |-> DrawBattery(hexapodSoC),
                                    controller |-> DrawBattery(controllerSoC)]]
    /\ pc' = "renderButtons"
    /\ elapsed' = 0
    /\ UNCHANGED <<uiVars, dataVars, ticks, sw, ticksReg, uartVars, adcVars>>

ButtonHighlighted(n) == ButtonTouched(n) /\ touchedButton = n

\* a redraw condition that ignores needsRedraw
ButtonRedrawn_HighlightOnly(n) ==
    /\ buttons[n].page = currentPage
    /\ buttons[n].highlighted # ButtonHighlighted(n)

ButtonRedrawn(n) ==
    /\ buttons[n].page = currentPage
    /\ (buttons[n].highlighted # ButtonHighlighted(n) \/ buttons[n].needsRedraw)

RenderButtons ==
    /\ pc = "renderButtons"
    /\ buttons' = [n \in ButtonIds |->
                     [buttons[n] EXCEPT
                        !.highlighted = ButtonHighlighted(n),
                        !.needsRedraw = IF ButtonRedrawn(n) THEN FALSE ELSE @]]
    /\ tft' = [tft EXCEPT !.drawn = {n \in ButtonIds : ButtonRedrawn(n)}]
    /\ pc' = "renderSliders"
    /\ elapsed' = 0
    /\ UNCHANGED <<sliders, touchedButton, touchedSlider, buttonPressed,
                   touchTimer, touchX, touchY, currentPage,
                   displayNeedsFullRedraw, controlBits, dataVars, ticks, sw,
                   ticksReg, uartVars, adcVars>>

SliderRedrawn(n) ==
    sliders[n].page = currentPage /\ sliders[n].oldValue # sliders[n].value

SliderSites == {"renderSliders", "storeSlider0", "renderSlider1", "storeSlider1"}

\* the slider a statement of the loop of RenderSliders works on
SliderAt(site) ==
    IF site \in {"renderSliders", "storeSlider0"} THEN FRONT_SERVO ELSE BACK_SERVO

SliderStoreSite(n) == IF n = FRONT_SERVO THEN "storeSlider0" ELSE "storeSlider1"

SliderNextSite(n) == IF n = FRONT_SERVO THEN "renderSlider1" ELSE "clearRedraw"

\* slider->oldValue = slider->value after the TFT_Box calls: the value is
\* read again, or the copy that was read to place the handle is reused
StoredOldValues(n) == {sliders[n].value, tft.handle[n]}

\* RenderSliders, one iteration in two statements: the test with the drawing
\* of the handle at the position of slider->value, then the assignment to
\* oldValue; the touch interrupt can run between them
RenderSliders ==
    /\ pc \in SliderSites
    /\ LET n == SliderAt(pc) IN
         IF pc \in {"renderSliders", "renderSlider1"}
         THEN IF SliderRedrawn(n)
              THEN /\ tft' = [tft EXCEPT !.handle[n] = sliders[n].value,
                                         !.drawn = {}]
                   /\ pc' = SliderStoreSite(n)
                   /\ UNCHANGED sliders
              ELSE /\ tft' = [tft EXCEPT !.drawn = {}]
                   /\ pc' = SliderNextSite(n)
                   /\ UNCHANGED sliders
         ELSE /\ \E v \in StoredOldValues(n) :
                    sliders' = [sliders EXCEPT ![n].oldValue = v]
              /\ pc' = SliderNextSite(n)
              /\ UNCHANGED tft
    /\ elapsed' = 0
    /\ UNCHANGED <<buttons, touchedButton, touchedSlider, buttonPressed,
                   touchTimer, touchX, touchY, currentPage,
                   displayNeedsFullRedraw, controlBits, dataVars, ticks, sw,
                   ticksReg, uartVars, adcVars>>

\* displayNeedsFullRedraw = false; the pass ends
ClearFullRedraw ==
    /\ pc = "clearRedraw"
    /\ displayNeedsFullRedraw' = FALSE
    /\ pc' = "switch"
    /\ elapsed' = 0
    /\ UNCHANGED <<buttons, sliders, touchedButton, touchedSlider,
                   buttonPressed, touchTimer, touchX, touchY, currentPage,
                   controlBits, dataVars, ticks, sw, ticksReg, uartVars,
                   adcVars, tft>>

(***************************************************************************)
(* Initial states: the globals' initialisers and the state of main() at    *)
(* sei().                                                                  *)
(***************************************************************************)
\* sl: the sliders array, tk: the ticks accumulated, bp: the press pending
\* tt, ts: the poll ticks a touch at (0,0) has lasted before main() takes
\* its first step, and the slider that touch has armed
Touched(sl, tk, bp, tt, ts) ==
    /\ buttons = [n \in ButtonIds |-> InitialiseButton(n)]
    /\ sliders = sl
    /\ touchedButton = NONE
    /\ touchedSlider = ts
    /\ buttonPressed = bp
    /\ touchTimer = tt
    /\ touchX = 0
    /\ touchY = 0
    /\ currentPage = MAIN_PAGE
    /\ displayNeedsFullRedraw = TRUE
    /\ controlBits = 0
    /\ left_x = 0 /\ left_y = 0 /\ right_x = 0 /\ right_y = 0
    /\ controllerSoC = 100
    /\ hexapodSoC = 100
    /\ ticks = tk
    /\ pc = "switch"
    /\ sw = NONE
    /\ ticksReg = 0
    /\ inTransmit = FALSE
    /\ udre = TRUE
    /\ wire = <<>>
    /\ rxc = FALSE
    /\ rxData = 0
    /\ inReadADC = FALSE
    /\ adsc = FALSE
    /\ adif = FALSE
    /\ adcw = 0
    /\ admux = 0
    /\ elapsed = 0
    /\ tft = [fill |-> [hexapod |-> 0, controller |-> 0],
              drawn |-> {},
              handle |-> [n \in SliderIds |-> NONE]]

Startup(sl, tk, bp) == Touched(sl, tk, bp, 0, -1)

\* the positions the touch controller reports in the user-interface model:
\* inside Walk, Wiggle, Red, Green and Blue, and the corner the
\* zero-initialised sliders occupy, which is outside every button
UiPoints ==
    { [x |-> 140, y |-> 40], [x |-> 260, y |-> 40],
      [x |-> 122, y |-> 210], [x |-> 200, y |-> 210], [x |-> 278, y |-> 210],
      [x |-> 0, y |-> 0] }

Init == Startup([n \in SliderIds |-> ZeroSlider], 0, -1)

\* the statements of a pass outside the switch and the 10 Hz cycle
PassSteps ==
    \/ ClearPressed
    \/ ReceiveStatus
    \/ DrainTest
    \/ RenderMainPage
    \/ RenderButtons
    \/ RenderSliders
    \/ ClearFullRedraw

\* the statements of the body of while (ticks > 781) but its Transmit calls
CycleSteps ==
    \/ DrainLoad
    \/ DrainStore
    \/ ReadADCStart
    \/ ReadADCReturn

TransmitSteps ==
    \/ TransmitWrite
    \/ TransmitReturn

\* the main loop while the tick counter stays below the 10 Hz threshold
MainLoopUi ==
    \/ Dispatch
    \/ EyeSelect
    \/ TransmitSteps
    \/ PassSteps

MainLoop ==
    \/ MainLoopUi
    \/ CycleSteps

\* the user interface: the main loop, the touch interrupt and the UART
Next ==
    \/ MainLoopUi
    \/ TIMER1_OVF_vect(UiPoints)
    \/ UartDataRegisterEmpty

Spec == Init /\ [][Next]_vars

(***************************************************************************)
(* The 10 Hz cycle with its inputs: the main loop, the UART and the ADC,   *)
(* started with the ticks of two cycles accumulated and with a press that  *)
(* the touch interrupt committed before the first pass.                    *)
(***************************************************************************)
\* the raw results the ADC delivers (10 bits)
AdcSamples == {0, 590, 1023}

\* the status bytes the hexapod sends
RxBytes == {60, 200}

\* the presses pending at the first pass
FirstPresses == {NONE, WIGGLE_MODE, RED_EYES}

InitSched ==
    \E b \in FirstPresses :
        Startup([n \in SliderIds |-> ZeroSlider], 2 * 782, b)

NextSched ==
    \/ MainLoop
    \/ UartDataRegisterEmpty
    \/ UartReceive(RxBytes)
    \/ AdcConversion(AdcSamples)

SpecSched == InitSched /\ [][NextSched]_vars

(***************************************************************************)
(* Tick accounting: the main loop under the 7.8 kHz tick interrupt, with   *)
(* one ADC result and no touch, so that the tick counter is followed over  *)
(* two thresholds.                                                         *)
(***************************************************************************)
MidScaleSamples == {590}

NextTicks ==
    \/ Dispatch
    \/ PassSteps
    \/ CycleSteps
    \/ TransmitSteps
    \/ TIMER0_OVF_vect
    \/ UartDataRegisterEmpty
    \/ AdcConversion(MidScaleSamples)

SpecTicks == Init /\ [][NextTicks]_vars

(***************************************************************************)
(* Slider dragging.  main() leaves the sliders zero-initialised; the model *)
(* of the drag arithmetic also starts from the arrays that InitialiseSlider*)
(* calls would set up: the front slider centred at x = 80, the back slider *)
(* at x = 240, both in the band above the buttons, each of any width of    *)
(* SliderWidths (16: usable width 0; 36: a quotient beyond the S8 range;   *)
(* 69: an odd usable width; 100).                                          *)
(***************************************************************************)
SliderWidths == {16, 36, 69, 100}

SliderCentres == [n \in SliderIds |-> IF n = FRONT_SERVO THEN 80 ELSE 240]

\* touch offsets from a slider's centre: the edges of the widest slider, of
\* its usable width, of the narrower ones, and the centre
DragOffsets == {-50, -42, -18, -10, -8, 0, 8, 18, 42, 50}

SliderPoints ==
    {[x |-> SliderCentres[n] + d, y |-> 10] : n \in SliderIds, d \in DragOffsets}
      \cup {[x |-> 0, y |-> 0]}

InitSlider ==
    \/ Init
    \/ \E w0 \in SliderWidths, w1 \in SliderWidths :
          Startup([n \in SliderIds |->
                      InitialiseSlider(SliderCentres[n], 0,
                                       IF n = FRONT_SERVO THEN w0 ELSE w1,
                                       50, MAIN_PAGE)],
                  0, -1)

NextSlider == TIMER1_OVF_vect(SliderPoints)

SpecSlider == InitSlider /\ [][NextSlider]_vars

(***************************************************************************)
(* Timing of the 10 Hz cycle.  Timer 0 overflows every 2048 clock cycles   *)
(* (128 us), so the number of overflows during a statement is bounded by   *)
(* the statement's duration: a UART character of 10 bits at 9600 baud      *)
(* (UBRR1 = 103) lasts 1.04 ms, _delay_ms(2) at most 2 ms, an ADC          *)
(* conversion of 25 ADC clocks at 125 kHz 200 us, and any other statement  *)
(* of the cycle less than one period.  Each figure is rounded up to whole  *)
(* periods plus one.  The drawing outside the cycle is not timed.          *)
(***************************************************************************)
ByteTicks == 9

DelayTicks == 16

ConversionTicks == 3

StatementTicks == 1

\* the ticks counter at which the paced tick interrupt is no longer followed
MaxPacedTicks == 790

CycleSites == {"drain", "load", "store"} \cup AdcSites \cup (TxSites \ {"eyeTx"})

\* the most overflows of timer 0 during the statement that main() is at
StepTicks ==
    IF pc \in TxSites
    THEN IF inTransmit THEN ByteTicks + DelayTicks ELSE ByteTicks
    ELSE IF pc \in AdcSites /\ inReadADC THEN ConversionTicks
    ELSE StatementTicks

\* a tick interrupt that is not held to the period of timer 0
TIMER0_OVF_unpaced ==
    /\ ticks < MaxPacedTicks
    /\ ticks' = ToS16(ticks + 1)
    /\ UNCHANGED tft
    /\ UNCHANGED <<uiVars, dataVars, pc, sw, ticksReg, uartVars, adcVars,
                   elapsed>>

\* the tick interrupt, at the pace the clock allows inside the 10 Hz cycle
TIMER0_OVF_paced ==
    /\ ticks < MaxPacedTicks
    /\ ticks' = ToS16(ticks + 1)
    /\ IF pc \in CycleSites
       THEN elapsed < StepTicks /\ elapsed' = elapsed + 1
       ELSE UNCHANGED elapsed
    /\ UNCHANGED tft
    /\ UNCHANGED <<uiVars, dataVars, pc, sw, ticksReg, uartVars, adcVars>>

\* the first pass has an eye-colour press to dispatch
InitPaced == Startup([n \in SliderIds |-> ZeroSlider], 0, RED_EYES)

NextPaced ==
    \/ MainLoop
    \/ TIMER0_OVF_paced
    \/ UartDataRegisterEmpty
    \/ AdcConversion(MidScaleSamples)

\* main() keeps running, and the UART and the ADC raise their flags
SpecPaced ==
    /\ InitPaced
    /\ [][NextPaced]_vars
    /\ WF_vars(MainLoop)
    /\ WF_vars(UartDataRegisterEmpty)
    /\ WF_vars(AdcConversion(MidScaleSamples))

(***************************************************************************)
(* Long touches.  A finger (or an object) resting on the panel keeps touch *)
(* data available; after 32767 poll ticks (18 minutes at 30 Hz) the short  *)
(* touchTimer wraps.                                                       *)
(* The specification starts at power-up or in the state that HeldTicks     *)
(* poll ticks of touch at the corner (0,0), inside both zero-initialised   *)
(* sliders, lead to.                                                       *)
(***************************************************************************)
HeldTicks == 32765

HeldPoints == { [x |-> 260, y |-> 40], [x |-> 0, y |-> 0] }

InitHeld ==
    \/ Init
    \/ Touched([n \in SliderIds |-> ZeroSlider], 0, -1, HeldTicks, BACK_SERVO)

NextHeld == TIMER1_OVF_held(HeldPoints)

SpecHeld == InitHeld /\ [][NextHeld]_vars

(***************************************************************************)
(* Hit tests at the edges of the buttons: positions one pixel outside and  *)
(* on the left and right edges of the button columns and of the three      *)
(* eye-colour buttons, in, above and below the first two rows and the last.*)
(***************************************************************************)
EdgeXs == {89, 90, 154, 155, 164, 165, 190, 191, 209, 210,
           235, 236, 245, 246, 310, 311}

EdgeYs == {29, 30, 62, 63, 64, 65, 204, 205, 237, 238}

EdgePoints == {[x |-> ex, y |-> ey] : ex \in EdgeXs, ey \in EdgeYs}

NextEdges == TIMER1_OVF_vect(EdgePoints)

SpecEdges == Init /\ [][NextEdges]_vars

(***************************************************************************)
(* Rendering of dragged sliders: both sliders as InitialiseSlider would    *)
(* set them up with width 100 and value 50, the main loop without the      *)
(* 10 Hz cycle (its first pass dispatches an eye-colour press), and        *)
(* touches at three positions of the front slider.                         *)
(***************************************************************************)
DragPoints == {[x |-> SliderCentres[FRONT_SERVO] + d, y |-> 10] : d \in {-20, 0, 20}}

InitDrag ==
    Startup([n \in SliderIds |->
                InitialiseSlider(SliderCentres[n], 0, 100, 50, MAIN_PAGE)],
            0, RED_EYES)

NextDrag ==
    \/ MainLoopUi
    \/ TIMER1_OVF_vect(DragPoints)
    \/ UartDataRegisterEmpty

SpecDrag == InitDrag /\ [][NextDrag]_vars

(***************************************************************************)
(* Mode selection: the main loop without the 10 Hz cycle, and touches      *)
(* inside each of the ten mode buttons, inside the Blue eye-colour button  *)
(* and at the corner the zero-initialised sliders occupy.  A pass without  *)
(* the 10 Hz cycle is far shorter than the 33 ms between two polls of the  *)
(* touch panel: here the touch interrupt is taken between two passes,      *)
(* after the main loop has dispatched and rendered what the previous       *)
(* interrupt left.                                                         *)
(***************************************************************************)
\* the main loop is at the top of a pass with no press to dispatch and
\* nothing to redraw
PassIdle ==
    /\ pc = "switch"
    /\ buttonPressed = NONE
    /\ ~displayNeedsFullRedraw
    /\ \A n \in ButtonIds : ~buttons[n].needsRedraw

ModeButtons == ButtonIds \ EyeButtons

\* the poll ticks after which a touch ends
MaxSelectTicks == 4

SelectPoints ==
    {[x |-> ButtonTable[n].x, y |-> ButtonTable[n].y + 10] :
        n \in ModeButtons \cup {BLUE_EYES}}
      \cup {[x |-> 0, y |-> 0]}

NextSelect ==
    \/ MainLoopUi
    \/ (PassIdle /\ TouchPoll(SelectPoints, touchTimer < MaxSelectTicks))
    \/ UartDataRegisterEmpty

SpecSelect == Init /\ [][NextSelect]_vars

\* the main loop is scheduled whenever it can run, and the UART hardware
\* empties its data register; touches are up to the user
FairSpec ==
    /\ Spec
    /\ WF_vars(MainLoopUi)
    /\ WF_vars(UartDataRegisterEmpty)

(***************************************************************************)
(* Touch debouncing and the hand-over of a press to the main loop.         *)
(***************************************************************************)
\* C1: while a touch has lasted fewer than 3 poll ticks, up to and with the
\* tick of its release, nothing is armed (touchedButton and touchedSlider
\* are and stay NONE), no slider changes, and no step of the interrupt (the
\* steps that leave the main loop where it is) writes buttonPressed
C1_Debounce ==
    [][(touchTimer < 3 /\ touchTimer' < 3)
         => /\ touchedButton = NONE /\ touchedButton' = NONE
            /\ touchedSlider = NONE /\ touchedSlider' = NONE
            /\ sliders' = sliders
            /\ (pc' = pc => buttonPressed' = buttonPressed)]_vars

\* a touch inside Wiggle has been sampled for 2 ticks while a committed
\* press waits for the main loop, and nothing is armed
C1_Witness ==
    /\ touchTimer = 2
    /\ ButtonTouched(WIGGLE_MODE)
    /\ buttonPressed # NONE
    /\ touchedButton = NONE
    /\ touchedSlider = NONE

\* C2: a committed press leaves buttonPressed only through the main loop's
\* buttonPressed = NONE, and only after the switch has read that very press:
\* no press is cleared or overwritten before it is dispatched
C2_ConsumedOnce ==
    [][(buttonPressed # NONE /\ buttonPressed' # buttonPressed)
         => (pc = "clear" /\ pc' = "rx" /\ sw = buttonPressed)]_vars

(***************************************************************************)
(* Button groups.                                                          *)
(***************************************************************************)
Groups ==
    { {WALK_MODE, WIGGLE_MODE}, {TRIPOD_GAIT, RIPPLE_GAIT},
      {LOW_BODY, HIGH_BODY}, {LOW_STEP, HIGH_STEP},
      {LONG_STEP, QUICK_STEP}, {RED_EYES, GREEN_EYES, BLUE_EYES} }

ExactlyOnePerGroup(bs) ==
    \A g \in Groups :
        \E b \in g : bs[b].selected /\ \A c \in g \ {b} : ~bs[c].selected

\* C3: in every state (after initialisation, after every dispatch) each of
\* the six groups has exactly one selected button, and wherever the switch
\* is about to run, its case for any of the thirteen buttons leaves exactly
\* one selected button per group again
C3_GroupExclusive ==
    /\ ExactlyOnePerGroup(buttons)
    /\ pc = "switch" =>
          \A b \in ButtonIds : ExactlyOnePerGroup(DispatchCase(b).sel)

\* the Blue eyes press has just been dispatched after Red was selected
C3_Witness ==
    /\ pc = "clear"
    /\ sw = BLUE_EYES
    /\ buttons[BLUE_EYES].selected
    /\ buttons[WIGGLE_MODE].selected

\* C4: a committed Wiggle press (touch held inside Wiggle and released
\* inside) leads to bit0 of controlBits set, Wiggle selected and Walk
\* deselected
C4_WiggleTakesEffect ==
    (buttonPressed = WIGGLE_MODE)
      ~> (/\ HasBit(controlBits, WIGGLE_BIT)
          /\ buttons[WIGGLE_MODE].selected
          /\ ~buttons[WALK_MODE].selected)

(***************************************************************************)
(* Battery estimates, the telemetry frame, the 10 Hz gate.                 *)
(***************************************************************************)
\* C5: no step raises hexapodSoC or controllerSoC, and an estimate changes
\* only to a sample (the received byte, the percentage of the battery ADC
\* result) that is strictly lower than the held value
C5_BatteryNeverIncreases ==
    [][/\ hexapodSoC' <= hexapodSoC
       /\ controllerSoC' <= controllerSoC
       /\ hexapodSoC' # hexapodSoC =>
             (hexapodSoC' = rxData /\ rxData < hexapodSoC)
       /\ controllerSoC' # controllerSoC =>
             (controllerSoC' = CDiv((adcw - 500) * 2, 3)
                /\ CDiv((adcw - 500) * 2, 3) < controllerSoC)]_vars

\* the second pass has read the status byte 200 and kept the 60 stored by
\* the first pass, and of the two battery samples of the first pass one was
\* stored (590, i.e. 60 %) and the other, not lower, was dropped
C5_Witness ==
    /\ pc = "drain" /\ ~displayNeedsFullRedraw /\ ticks < 781
    /\ hexapodSoC = 60 /\ rxData = 200 /\ ~rxc
    /\ controllerSoC = 60

\* C6: when the seventh Transmit of a cycle returns, the bytes written since
\* the cycle began are exactly 'c', controlBits, left_x, left_y, right_x,
\* right_y and the sum of the last five modulo 256, in this order; and the
\* checksum of 17, 10, 20, 30, 40 is 117
C6_Frame ==
    /\ Checksum(17, 10, 20, 30, 40) = 117
    /\ [][(pc = "tx6" /\ pc' # "tx6")
            => wire' = <<99, controlBits, left_x, left_y, right_x, right_y,
                         (controlBits + left_x + left_y + right_x + right_y) % 256>>]_vars

\* a frame is complete whose control byte is not 0 and whose sum passed 255
C6_Witness ==
    /\ pc = "drain"
    /\ Len(wire) = 7
    /\ wire[2] = WIGGLE_BIT
    /\ wire[3] + wire[4] + wire[5] + wire[6] > 255
    /\ wire[7] = (wire[2] + wire[3] + wire[4] + wire[5] + wire[6]) % 256

\* C7 as stated: when the tick-drain loop is left, fewer than 781 ticks
\* remain (a cycle runs whenever 781 or more have accumulated)
C7_DrainLeavesBelow781 ==
    [][(pc = "drain" /\ pc' = "renderMain") => ticks' < 781]_vars

\* C7, amended: the loop test sends the main loop into a cycle exactly when
\* more than 781 ticks have accumulated; the cycle stores the loaded count
\* less 781 and returns to the test after its seventh Transmit; when the
\* loop is left at most 781 ticks remain
C7_DrainLeavesAtMost781 ==
    [][/\ (pc = "drain" /\ pc' # "drain") =>
             /\ (pc' = "load") = (ticks > 781)
             /\ (pc' = "renderMain") = (ticks <= 781)
             /\ ticks' = ticks
       /\ (pc = "store" /\ pc' # "store") =>
             (ticks' = ticksReg - 781 /\ pc' = "adcBatt")
       /\ (pc = "tx6" /\ pc' # "tx6") => pc' = "drain"]_vars

\* the loop has been left with exactly 781 ticks after a cycle of this pass
C7_Witness ==
    /\ pc = "renderMain"
    /\ ticks = 781
    /\ Len(wire) = 7

(***************************************************************************)
(* Slider values.                                                          *)
(***************************************************************************)
\* the poll tick is a drag of slider n: the touch has lasted more than 3
\* ticks, n was armed, and the new position is inside n
DragStep(n) ==
    /\ touchTimer' > 3
    /\ touchedSlider = n
    /\ SliderTouchedAt(sliders[n], touchX', touchY', currentPage)

\* C9: every slider's stored value lies in 0 .. 100 in every state
C9_SliderValueInRange ==
    \A n \in SliderIds : sliders[n].value \in 0 .. 100

\* a drag has just stored a value whose quotient did not fit the S8 field
\* or the range 0 .. 100
C9_Witness ==
    \E n \in SliderIds :
        /\ touchTimer > 3
        /\ touchedSlider = n
        /\ SliderTouched(n)
        /\ \E q \in DragQuotients(sliders[n], touchX) : q > 100

\* the percentage of the claim, in unbounded integers with truncation:
\* 100*(x - (centre - usableWidth/2))/usableWidth, clamped to 0 .. 100
TruncatedPercentage(s, x) ==
    LET usableWidth == s.width - 16
        v == CDiv(100 * (x - (s.x - CDiv(usableWidth, 2))), usableWidth)
    IN IF v < 0 THEN 0 ELSE IF v > 100 THEN 100 ELSE v

C8_PassCompletes ==
    /\ (pc = "switch") ~> (pc = "clearRedraw")
    /\ (pc = "clearRedraw") ~> (pc = "switch" /\ ~displayNeedsFullRedraw)

\* the drain loop has been left after a 10 Hz cycle during which the tick
\* interrupt fired
C8_Witness ==
    /\ pc = "renderMain"
    /\ Len(wire) = 7
    /\ ticks > 0
    /\ ticks <= 781

(***************************************************************************)
(* Arming.                                                                 *)
(***************************************************************************)
\* C11: a button and a slider are never armed together
C11_ArmedExclusive ==
    ~(touchedButton # NONE /\ touchedSlider # NONE)

(***************************************************************************)
(* Selection with the sentinel.                                            *)
(***************************************************************************)
\* the fields of b that differ from those of buttons
ChangedButtons(b) == {n \in ButtonIds : b[n] # buttons[n]}

PercentRange == BatteryPercent(0) .. 100

\* max(3, percentage*30/100)
FlooredFill(percentage) ==
    LET w == (percentage * 30) \div 100 IN IF w < 3 THEN 3 ELSE w

\* C13: the fill width DrawBattery draws is max(3, percentage*30/100) for
\* every percentage an estimate can hold, it does not decrease when the
\* percentage increases, and RenderMainPage draws both gauges with it
C13_FillWidth ==
    /\ \A p \in PercentRange :
          /\ DrawBattery(p) = FlooredFill(p)
          /\ (p < 100 => DrawBattery(p) <= DrawBattery(p + 1))
    /\ [][(pc = "renderMain" /\ pc' = "renderButtons") =>
             /\ tft'.fill.hexapod = FlooredFill(hexapodSoC)
             /\ tft'.fill.controller = FlooredFill(controllerSoC)]_vars

\* the gauges have been drawn for a negative controller estimate (floor 3)
\* and for a hexapod estimate of 60 % (18 pixels)
C13_Witness ==
    /\ pc = "renderButtons"
    /\ controllerSoC < 0
    /\ tft.fill.controller = 3
    /\ hexapodSoC = 60
    /\ tft.fill.hexapod = 18

(***************************************************************************)
(* Release.                                                                *)
(***************************************************************************)
\* the poll tick finds no touch after a touch of at least 3 ticks
ReleaseStep == touchTimer >= 3 /\ touchTimer' = 0

\* C14: a release after at least 3 ticks stores the armed button in
\* buttonPressed exactly if a button is armed and the last position is
\* inside it, leaves buttonPressed unchanged otherwise, and disarms both
\* widgets; and nothing is armed while touchTimer is 0
C14_ReleaseCommits ==
    /\ [][ReleaseStep =>
            /\ buttonPressed' =
                  IF touchedButton \in ButtonIds /\ ButtonTouched(touchedButton)
                  THEN touchedButton
                  ELSE buttonPressed
            /\ touchedButton' = NONE
            /\ touchedSlider' = NONE]_vars
    /\ [](touchTimer = 0 => (touchedButton = NONE /\ touchedSlider = NONE))

\* C15: while a touch lasts, touchedButton and touchedSlider change only in
\* the poll tick that makes touchTimer 3, and then from NONE: once a widget
\* is armed nothing changes until the release
C15_ArmedOnce ==
    [][(/\ touchTimer' # 0
        /\ (touchedButton' # touchedButton \/ touchedSlider' # touchedSlider))
          => (touchTimer' = 3 /\ touchedButton = NONE /\ touchedSlider = NONE)]_vars

(***************************************************************************)
(* Hit test of the buttons.                                                *)
(***************************************************************************)
\* the buttons of the active page whose region |x - cx| <= width/2,
\* top <= y <= top + 32 contains the point
ButtonsAround(x, y) ==
    {n \in ButtonIds :
        /\ x - ButtonTable[n].x <= ButtonTable[n].width \div 2
        /\ ButtonTable[n].x - x <= ButtonTable[n].width \div 2
        /\ y >= ButtonTable[n].y
        /\ y <= ButtonTable[n].y + 32
        /\ buttons[n].page = currentPage}

HighestOf(hits) ==
    IF hits = {} THEN NONE ELSE CHOOSE n \in hits : \A m \in hits : m <= n

\* C16: the poll tick that makes touchTimer 3 arms the highest-indexed
\* button whose region contains the touch point, and no button if none
\* does; of several buttons hit the last in iteration order wins
C16_HighestHitArmed ==
    /\ \A hits \in SUBSET EyeButtons : LastTouched(hits, NONE) = HighestOf(hits)
    /\ [][touchTimer' = 3 =>
             touchedButton' = HighestOf(ButtonsAround(touchX', touchY'))]_vars

\* tick 3 on the bottom left corner of the Green button has armed it
C16_Witness ==
    /\ touchTimer = 3
    /\ touchX = 165
    /\ touchY = 237
    /\ touchedButton = GREEN_EYES

(***************************************************************************)
(* Rendering.                                                              *)
(***************************************************************************)
\* C17: RenderButtons draws a button of the active page exactly if its
\* highlighted flag changes in that call, or needsRedraw is set, or
\* displayNeedsFullRedraw is set; and needsRedraw is cleared only by a call
\* that draws the button
C17_RedrawnWhenDirty ==
    [][/\ (pc = "renderButtons" /\ pc' = "renderSliders") =>
            \A n \in ButtonIds :
                buttons[n].page = currentPage =>
                    ((n \in tft'.drawn) <=>
                        \/ buttons'[n].highlighted # buttons[n].highlighted
                        \/ buttons[n].needsRedraw
                        \/ displayNeedsFullRedraw)
       /\ \A n \in ButtonIds :
            (buttons[n].needsRedraw /\ ~buttons'[n].needsRedraw) =>
                (pc = "renderButtons" /\ n \in tft'.drawn)]_vars

\* after the first pass, a call has drawn the Wiggle button because it
\* became highlighted, and has not drawn the Walk button
C17_Witness ==
    /\ pc = "renderSliders"
    /\ ~displayNeedsFullRedraw
    /\ buttons[WIGGLE_MODE].highlighted
    /\ WIGGLE_MODE \in tft.drawn
    /\ WALK_MODE \notin tft.drawn

BitButton ==
    [b \in {WIGGLE_BIT, HIGH_STEP_BIT, HIGH_BODY_BIT, QUICK_STEP_BIT, RIPPLE_BIT} |->
        CASE b = WIGGLE_BIT     -> WIGGLE_MODE
          [] b = HIGH_STEP_BIT  -> HIGH_STEP
          [] b = HIGH_BODY_BIT  -> HIGH_BODY
          [] b = QUICK_STEP_BIT -> QUICK_STEP
          [] b = RIPPLE_BIT     -> RIPPLE_GAIT]

BitsAgree(bits, bs) ==
    /\ bits \in 0 .. 31
    /\ \A b \in DOMAIN BitButton : HasBit(bits, b) <=> bs[BitButton[b]].selected

\* C19: wherever a pass of the main loop begins, bit0 of controlBits is set
\* iff Wiggle is selected, bit1 iff High step, bit2 iff High body, bit3 iff
\* Quick step, bit4 iff Ripple gait, and bits 5-7 are 0; and controlBits
\* changes only in the switch dispatching a mode button, so neither an
\* eye-colour dispatch nor a touch interrupt dragging a slider changes it
C19_BitsFollowSelection ==
    /\ [](pc = "switch" => BitsAgree(controlBits, buttons))
    /\ [][controlBits' # controlBits
            => (pc = "switch" /\ buttonPressed \in ModeButtons)]_vars

\* a pass begins with Wiggle, High step, High body, Quick step and Ripple
\* gait selected and Blue eyes dispatched, while a touch drags a slider
C19_Witness ==
    /\ pc = "switch"
    /\ controlBits = 31
    /\ buttons[BLUE_EYES].selected
    /\ touchedSlider # -1
    /\ touchTimer > 3

(***************************************************************************)
(* Indices into the buttons array.                                         *)
(***************************************************************************)
\* C20: whenever the touch interrupt releases a touch of at least 3 poll
\* ticks, so that HandleTouchUp evaluates ButtonTouched(&buttons[touchedButton]),
\* touchedButton is an index of the array (0 .. NUM_BUTTONS-1), never NONE
C20_TouchUpIndexInRange ==
    [][ReleaseStep => touchedButton \in ButtonIds]_vars

(***************************************************************************)
(* Tick accounting under the tick interrupt.                               *)
(***************************************************************************)
\* C21: the ticks the interrupt has counted equal ticks + 781 * (cycles
\* started) at all times, i.e. every step keeps that balance: the statement
\* ticks -= 781 that starts a cycle leaves ticks exactly 781 below the value
\* it had when the statement completes (no increment that arrived during
\* the statement is lost), and every other change of ticks is an increment
\* by one (the counter does not wrap)
C21_TicksConserved ==
    [][/\ (pc = "store" /\ pc' = "adcBatt") => ticks' = ticks - 781
       /\ (ticks' # ticks /\ pc' = pc) => ticks' = ticks + 1]_vars


=============================================================================
